---- MODULE Spec2Model ----
(***************************************************************************)
(* The persistence layer (database.py, class Database) and the route layer *)
(* (app.py) of the inventory service, as a state machine.                  *)
(*                                                                         *)
(* Every request is handled by a coroutine of the event loop.  A handler   *)
(* is suspended at each await on the database, so the steps of two         *)
(* requests interleave at the granularity of one database round trip:      *)
(* a SELECT, a flush-and-COMMIT, a refresh.  Each such round trip is one   *)
(* action here.  reset_database runs inside one engine.begin() block and   *)
(* is one action.                                                          *)
(***************************************************************************)
EXTENDS Integers, Sequences, FiniteSets, Bags, TLC

VARIABLES items, users, pc, resp, nCreate, pristine, gone, wiped

vars == <<items, users, pc, resp, nCreate, pristine, gone, wiped>>

\* items and users are the two tables; pc is the bag of suspended handlers;
\* resp is the outcome of the step just taken.  The rest is history:
\*   nCreate   create-item requests that reached the Store, while pristine
\*   pristine  no delete and no reset has happened yet
\*   gone      ids whose delete completed, with no create of the id since
\*   wiped     a reset completed, with no create since

-----------------------------------------------------------------------------
(* Bounds of the model: the primary keys of the two tables, and the        *)
(* create-item requests counted before the first delete or reset.         *)

MaxId == 2
MaxUserId == 2
MaxCreates == 3

Ids == 1..MaxId


-----------------------------------------------------------------------------
(* Schemas: models.py *)

None == "None"
NoId == 0

ItemFields == {"name", "price", "description", "stock", "category"}

Laptop == [name |-> "Laptop", price |-> 2, description |-> "d", stock |-> 1, category |-> "c"]
Phone == [name |-> "Phone", price |-> 2, description |-> "d", stock |-> 1, category |-> "c"]
Budget == [name |-> "Laptop", price |-> 1, description |-> None, stock |-> 0, category |-> None]
Gift == [name |-> "Laptop", price |-> 0, description |-> "d", stock |-> 1, category |-> "c"]
Owed == [name |-> "Phone", price |-> 2, description |-> "d", stock |-> -1, category |-> "c"]

ItemBodies == {Laptop, Phone, Budget, Gift, Owed}

\* An ItemSchema value as update_item reads it: the five fields; it never
\* reads id.
ItemData == {[id |-> NoId] @@ b : b \in ItemBodies}

\* An ItemSchema value: the five fields and the optional id.
ItemInputs == {[id |-> i] @@ b : i \in {NoId} \cup Ids, b \in ItemBodies}

ItemSchemaBad(item) == item.price >= 0 /\ item.stock >= 0

\* What ItemSchema's Field(gt=0) and Field(ge=0) accept.
ItemSchema(item) == item.price > 0 /\ item.stock >= 0

\* The five columns update_item assigns.
Data(item) == [f \in ItemFields |-> item[f]]

Emails == {"a@b.com", "c@d.com"}
EmailInputs == Emails \cup {"not-an-email"}
Passwords == {1, 2}
Salts == {1, 2}

UserInputs == [email : EmailInputs, password : Passwords]

UserSchema(user) == user.email \in Emails

-----------------------------------------------------------------------------
(* Password hashing: pwd_context.  A hash is a salt and a digest of salt   *)
(* and password; verifying recomputes the digest with the stored salt.    *)

Digest(salt, password) == (5 * password + 3 * salt) % 11

Hash(password, salt) == [salt |-> salt, digest |-> Digest(salt, password)]

verify_password(plain_password, hashed_password) ==
    Digest(hashed_password.salt, plain_password) = hashed_password.digest

-----------------------------------------------------------------------------
(* The tables.  items and users are functions from the primary keys of    *)
(* the rows present to the rows.                                          *)

Max(S) == CHOOSE x \in S : \A y \in S : y <= x

\* SQLite's rowid for an INSERT that gives no primary key.
NextId(tbl) == IF DOMAIN tbl = {} THEN 1 ELSE Max(DOMAIN tbl) + 1

Insert(tbl, id, row) == [k \in DOMAIN tbl \cup {id} |-> IF k = id THEN row ELSE tbl[k]]

Remove(tbl, id) == [k \in DOMAIN tbl \ {id} |-> tbl[k]]

Empty == [k \in {} |-> None]

\* An ORM object: the primary key and the columns of its row.
Persisted(id, row) == [id |-> id] @@ row

RECURSIVE Scalars(_, _)
\* The rows of a table in rowid order, as a sequence of ORM objects.
Scalars(tbl, ids) ==
    IF ids = {} THEN <<>>
    ELSE LET m == Max(ids) IN Append(Scalars(tbl, ids \ {m}), Persisted(m, tbl[m]))

\* The ids of the users rows with this email.
ByEmail(tbl, email) == {k \in DOMAIN tbl : tbl[k].email = email}

\* select(UserModel).where(email == email) ... first()
get_user_by_email(tbl, email) ==
    IF ByEmail(tbl, email) = {} THEN {}
    ELSE LET k == CHOOSE x \in ByEmail(tbl, email) : \A y \in ByEmail(tbl, email) : x <= y
         IN {Persisted(k, tbl[k])}

UniqueViolationBad(tbl, email) == FALSE

\* The UNIQUE index on users.email rejects the INSERT.
UniqueViolation(tbl, email) == ByEmail(tbl, email) # {}

-----------------------------------------------------------------------------
(* Responses *)

\* The event loop starts the handler of a new request.  Two handlers run at
\* a time: every race in database.py is between the database round trips of
\* two requests.
Free == BagCardinality(pc) < 2

Suspend(r) == pc (+) SetToBag({r})

Resume(r) == pc (-) SetToBag({r})

Suspended(op) == {r \in BagToSet(pc) : r.op = op}

\* A handler step that ended its request: HTTP status, the exception that
\* left the Store ("" for none), the body as a sequence of records.  step
\* names the database round trip the handler ended at.
Done(op, step, arg, status, exc, body) ==
    [op |-> op, step |-> step, done |-> TRUE, arg |-> arg, status |-> status,
     exc |-> exc, body |-> body]

\* A handler step that left its request suspended at the next await.
Await(op, step, arg) ==
    [op |-> op, step |-> step, done |-> FALSE, arg |-> arg, status |-> 0,
     exc |-> "", body |-> <<>>]

HTTPException == "HTTPException"

Init ==
    /\ items = Empty
    /\ users = Empty
    /\ pc = EmptyBag
    /\ resp = Done("startup", "ddl", [id |-> NoId], 200, "", <<>>)
    /\ nCreate = 0
    /\ pristine = TRUE
    /\ gone = {}
    /\ wiped = FALSE

-----------------------------------------------------------------------------
(* Items: Database.create_item .. Database.delete_item and their routes *)

\* select(ItemModel).where(id == item_id) ... first(): {} or one object.
get_item_by_id(tbl, item_id) ==
    IF item_id \in DOMAIN tbl THEN {Persisted(item_id, tbl[item_id])} ELSE {}

\* The columns the flush puts in the UPDATE: the attributes whose new value
\* differs from the value loaded by the SELECT.
Dirty(loaded, data) == {f \in ItemFields : data[f] # loaded[f]}

\* POST /items/: validation, then INSERT and COMMIT.
create_item(item) ==
    /\ Free
    /\ UNCHANGED users
    /\ IF ~ItemSchema(item)
       THEN /\ resp' = Done("create_item", "validate", [id |-> item.id, item |-> Data(item)], 422,
                            "RequestValidationError", <<>>)
            /\ UNCHANGED <<items, pc, nCreate, pristine, gone, wiped>>
       ELSE LET id == IF item.id = NoId THEN NextId(items) ELSE item.id IN
            /\ id <= MaxId
            /\ pristine => nCreate < MaxCreates
            /\ nCreate' = IF pristine THEN nCreate + 1 ELSE 0
            /\ UNCHANGED pristine
            /\ IF id \in DOMAIN items
               THEN \* IntegrityError, caught: rollback, 500
                    /\ resp' = Done("create_item", "commit", [id |-> item.id, item |-> Data(item)], 500,
                                    HTTPException, <<>>)
                    /\ UNCHANGED <<items, pc, gone, wiped>>
               ELSE /\ items' = Insert(items, id, Data(item))
                    /\ gone' = gone \ {id}
                    /\ wiped' = FALSE
                    /\ pc' = Suspend([op |-> "create_item", id |-> id, item |-> Data(item)])
                    /\ resp' = Await("create_item", "commit", [id |-> item.id, item |-> Data(item)])

\* session.refresh(db_item) and the 201 response.
create_item_refresh(r) ==
    /\ pc' = Resume(r)
    /\ UNCHANGED <<items, users, nCreate, pristine, gone, wiped>>
    /\ LET arg == [id |-> r.id, item |-> r.item]
           row == get_item_by_id(items, r.id) IN
       IF row = {}
       THEN \* InvalidRequestError, caught: rollback, 500
            resp' = Done("create_item", "refresh", arg, 500, HTTPException, <<>>)
       ELSE resp' = Done("create_item", "refresh", arg, 201, "", Scalars(items, {r.id}))

\* GET /items/{item_id}
get_item(item_id) ==
    /\ Free
    /\ UNCHANGED <<items, users, pc, nCreate, pristine, gone, wiped>>
    /\ IF get_item_by_id(items, item_id) = {}
       THEN resp' = Done("get_item", "select", [id |-> item_id], 404, HTTPException, <<>>)
       ELSE resp' = Done("get_item", "select", [id |-> item_id], 200, "", Scalars(items, {item_id}))

\* GET /items/
get_all_items ==
    /\ Free
    /\ UNCHANGED <<items, users, pc, nCreate, pristine, gone, wiped>>
    /\ resp' = Done("get_all_items", "select", [id |-> NoId], 200, "", Scalars(items, DOMAIN items))

\* PUT /items/{item_id}: validation, then get_item_by_id in its own session.
update_item(item_id, item_data) ==
    /\ Free
    /\ UNCHANGED <<items, users, nCreate, pristine, gone, wiped>>
    /\ LET arg == [id |-> item_id, item |-> Data(item_data)]
           item == get_item_by_id(items, item_id) IN
       IF ~ItemSchema(item_data)
       THEN /\ resp' = Done("update_item", "validate", arg, 422, "RequestValidationError", <<>>)
            /\ UNCHANGED pc
       ELSE IF item = {}
       THEN /\ resp' = Done("update_item", "select", arg, 404, HTTPException, <<>>)
            /\ UNCHANGED pc
       ELSE /\ pc' = Suspend([op |-> "update_item", id |-> item_id,
                                 data |-> Data(item_data), loaded |-> items[item_id]])
            /\ resp' = Await("update_item", "select", arg)

\* The row the UPDATE leaves: the dirty columns from the payload.
Flush(row, loaded, data) ==
    [f \in ItemFields |-> IF f \in Dirty(loaded, data) THEN data[f] ELSE row[f]]

\* session.add(item); session.commit(): flush of the dirty attributes.
update_item_commit(r) ==
    /\ pc' = Resume(r)
    /\ UNCHANGED <<users, nCreate, pristine, gone, wiped>>
    /\ LET id == r.id
           data == r.data
           arg == [id |-> id, item |-> data] IN
       IF Dirty(r.loaded, data) = {}
       THEN \* nothing to flush: no UPDATE is emitted
            /\ resp' = Done("update_item", "commit", arg, 200, "", <<Persisted(id, data)>>)
            /\ UNCHANGED items
       ELSE IF id \notin DOMAIN items
       THEN \* UPDATE matched 0 rows: not caught by update_item
            /\ resp' = Done("update_item", "commit", arg, 500, "StaleDataError", <<>>)
            /\ UNCHANGED items
       ELSE /\ items' = [items EXCEPT ![id] = Flush(items[id], r.loaded, data)]
            /\ resp' = Done("update_item", "commit", arg, 200, "", <<Persisted(id, data)>>)

delete_item_bad(item_id) ==
    /\ Free
    /\ UNCHANGED <<items, users, nCreate, pristine, gone, wiped>>
    /\ pc' = Suspend([op |-> "delete_item", id |-> item_id])
    /\ resp' = Await("delete_item", "select", [id |-> item_id])

\* DELETE /items/{item_id}: get_item in its own session.
delete_item(item_id) ==
    /\ Free
    /\ UNCHANGED <<items, users, nCreate, pristine, gone, wiped>>
    /\ IF get_item_by_id(items, item_id) = {}
       THEN /\ resp' = Done("delete_item", "select", [id |-> item_id], 404, HTTPException, <<>>)
            /\ UNCHANGED pc
       ELSE /\ pc' = Suspend([op |-> "delete_item", id |-> item_id])
            /\ resp' = Await("delete_item", "select", [id |-> item_id])

\* session.delete(db_item); session.commit(): DELETE ... WHERE id; a DELETE
\* that matches no row only warns.
delete_item_commit(r) ==
    /\ pc' = Resume(r)
    /\ items' = Remove(items, r.id)
    /\ gone' = gone \cup {r.id}
    /\ pristine' = FALSE
    /\ nCreate' = 0
    /\ UNCHANGED <<users, wiped>>
    /\ resp' = Done("delete_item", "commit", [id |-> r.id], 204, "", <<>>)

reset_database_bad ==
    /\ Free
    /\ users' = Empty
    /\ pristine' = FALSE
    /\ nCreate' = 0
    /\ wiped' = TRUE
    /\ UNCHANGED <<items, pc, gone>>
    /\ resp' = Done("reset_database", "ddl", [id |-> NoId], 200, "", <<>>)

\* POST /reset-database/: drop_all, create_all.
reset_database ==
    /\ Free
    /\ items' = Empty
    /\ users' = Empty
    /\ pristine' = FALSE
    /\ nCreate' = 0
    /\ wiped' = TRUE
    /\ UNCHANGED <<pc, gone>>
    /\ resp' = Done("reset_database", "ddl", [id |-> NoId], 200, "", <<>>)

NextItems ==
    \/ \E item \in ItemInputs : create_item(item)
    \/ \E r \in Suspended("create_item") : create_item_refresh(r)
    \/ \E id \in Ids : get_item(id)
    \/ get_all_items
    \/ \E id \in Ids, item \in ItemData : update_item(id, item)
    \/ \E r \in Suspended("update_item") : update_item_commit(r)
    \/ \E id \in Ids : delete_item(id)
    \/ \E r \in Suspended("delete_item") : delete_item_commit(r)
    \/ reset_database

SpecItems == Init /\ [][NextItems]_vars

-----------------------------------------------------------------------------
(* Users: register, Database.create_user, login *)

UserModel(email, hashed_password) == [email |-> email, hashed_password |-> hashed_password]

\* POST /register/: validation, then the route's own get_user_by_email.
register(user) ==
    /\ Free
    /\ UNCHANGED <<items, users, nCreate, pristine, gone, wiped>>
    /\ IF ~UserSchema(user)
       THEN /\ resp' = Done("register", "validate", user, 422, "RequestValidationError", <<>>)
            /\ UNCHANGED pc
       ELSE IF get_user_by_email(users, user.email) # {}
       THEN /\ resp' = Done("register", "select", user, 400, HTTPException, <<>>)
            /\ UNCHANGED pc
       ELSE /\ pc' = Suspend([op |-> "register", at |-> "create_user", user |-> user,
                                 id |-> NoId])
            /\ resp' = Await("register", "select", user)

\* Database.create_user: its get_user_by_email check.
create_user(r) ==
    /\ r.at = "create_user"
    /\ UNCHANGED <<items, users, nCreate, pristine, gone, wiped>>
    /\ IF get_user_by_email(users, r.user.email) # {}
       THEN /\ resp' = Done("register", "check", r.user, 400, HTTPException, <<>>)
            /\ pc' = Resume(r)
       ELSE /\ pc' = Resume(r) (+) SetToBag({[r EXCEPT !.at = "commit"]})
            /\ resp' = Await("register", "check", r.user)

\* pwd_context.hash with a fresh salt; session.add; session.commit: INSERT.
create_user_commit(r) ==
    /\ r.at = "commit"
    /\ UNCHANGED <<items, nCreate, pristine, gone, wiped>>
    /\ LET user == r.user IN
       IF UniqueViolation(users, user.email)
       THEN \* IntegrityError, caught: rollback, 500 "Could not create user"
            /\ resp' = Done("register", "commit", user, 500, HTTPException, <<>>)
            /\ pc' = Resume(r)
            /\ UNCHANGED users
       ELSE \E salt \in Salts :
            /\ NextId(users) <= MaxUserId
            /\ users' = Insert(users, NextId(users),
                               UserModel(user.email, Hash(user.password, salt)))
            /\ pc' = Resume(r) (+) SetToBag({[r EXCEPT !.at = "refresh",
                                                            !.id = NextId(users)]})
            /\ resp' = Await("register", "commit", user)

\* session.refresh(db_user) and the response.
create_user_refresh(r) ==
    /\ r.at = "refresh"
    /\ pc' = Resume(r)
    /\ UNCHANGED <<items, users, nCreate, pristine, gone, wiped>>
    /\ IF r.id \notin DOMAIN users
       THEN \* InvalidRequestError, caught: rollback, 500
            resp' = Done("register", "refresh", r.user, 500, HTTPException, <<>>)
       ELSE resp' = Done("register", "refresh", r.user, 200, "",
                         Scalars(users, {r.id}))

login_bad(form_data) ==
    /\ Free
    /\ UNCHANGED <<items, users, pc, nCreate, pristine, gone, wiped>>
    /\ LET user == get_user_by_email(users, form_data.email) IN
       IF ~UserSchema(form_data)
       THEN resp' = Done("login", "validate", form_data, 422, "RequestValidationError", <<>>)
       ELSE IF user = {} \/ \E u \in user : ~verify_password(form_data.password, u.hashed_password)
       THEN resp' = Done("login", "select", form_data, 404, HTTPException, <<>>)
       ELSE resp' = Done("login", "select", form_data, 200, "",
                         <<[access_token |-> form_data.email, token_type |-> "bearer"]>>)

\* POST /token
login(form_data) ==
    /\ Free
    /\ UNCHANGED <<items, users, pc, nCreate, pristine, gone, wiped>>
    /\ LET user == get_user_by_email(users, form_data.email) IN
       IF ~UserSchema(form_data)
       THEN resp' = Done("login", "validate", form_data, 422, "RequestValidationError", <<>>)
       ELSE IF user = {}
       THEN resp' = Done("login", "select", form_data, 404, HTTPException, <<>>)
       ELSE IF \E u \in user : ~verify_password(form_data.password, u.hashed_password)
       THEN resp' = Done("login", "select", form_data, 401, HTTPException, <<>>)
       ELSE resp' = Done("login", "select", form_data, 200, "",
                         <<[access_token |-> (CHOOSE u \in user : TRUE).email,
                            token_type |-> "bearer"]>>)

NextUsers ==
    \/ \E user \in UserInputs : register(user)
    \/ \E r \in Suspended("register") : create_user(r)
    \/ \E r \in Suspended("register") : create_user_commit(r)
    \/ \E r \in Suspended("register") : create_user_refresh(r)
    \/ \E form_data \in UserInputs : login(form_data)
    \/ reset_database

SpecUsers == Init /\ [][NextUsers]_vars

-----------------------------------------------------------------------------
(* Properties *)

\* C1: no two persisted users have the same email.
C1_UniqueEmail ==
    \A a \in DOMAIN users, b \in DOMAIN users : users[a].email = users[b].email => a = b

\* A registration lost the race on its email: its INSERT was rejected.
C1_Witness ==
    /\ resp.op = "register" /\ resp.step = "commit" /\ resp.status = 500
    /\ ByEmail(users, resp.arg.email) # {}

\* C2: a register request whose email is persisted when it looks the email up
\* or attempts its insert ends with 400 and leaves the users table unchanged.
C2_DuplicateIsConflict ==
    [][(/\ resp'.op = "register"
        /\ resp'.step \in {"select", "check", "commit"}
        /\ ByEmail(users, resp'.arg.email) # {})
       => (resp'.done /\ resp'.status = 400 /\ users' = users)]_vars

\* C3: when the commit of an update_item completes, the persisted row of the
\* id equals the payload in all five mutable fields.
C3_UpdateReplacesAll ==
    (/\ resp.op = "update_item" /\ resp.step = "commit" /\ resp.status = 200
     /\ resp.arg.id \in DOMAIN items)
    => items[resp.arg.id] = resp.arg.item

\* C4: every Store operation ends with its result or with an HTTPException;
\* no other exception leaves the Store.
C4_TypedFailures ==
    resp.done => resp.exc \in {"", HTTPException, "RequestValidationError"}

\* C5: create_item with a valid payload, whatever its id field, succeeds with
\* a record that carries the payload's five fields, and get_item on the
\* record's id returns the same record.
C5_CreateThenGet ==
    (resp.op = "create_item" /\ resp.done /\ ItemSchema(resp.arg.item))
    => /\ resp.status = 201
       /\ Len(resp.body) = 1
       /\ Data(resp.body[1]) = Data(resp.arg.item)
       /\ get_item_by_id(items, resp.body[1].id) = {resp.body[1]}

\* C6: update_item on an id that has no row, and delete_item on an id whose
\* delete completed with no create since, end with 404 and leave the items
\* table unchanged.
C6_MissingIsNotFound ==
    [][(\/ /\ resp'.op = "update_item" /\ resp'.step = "select"
           /\ resp'.arg.id \notin DOMAIN items
        \/ /\ resp'.op = "delete_item" /\ resp'.step = "select"
           /\ resp'.arg.id \in gone)
       => (/\ resp'.done /\ resp'.status = 404 /\ resp'.exc = HTTPException
           /\ items' = items)]_vars

\* A second delete of an id found it gone.
C6_Witness ==
    /\ resp.op = "delete_item" /\ resp.status = 404
    /\ resp.arg.id \in gone

\* C7: with no deletion and no reset so far, get_all_items returns one record
\* per create-item request made.
C7_ListCountsCreates ==
    (pristine /\ resp.op = "get_all_items") => Len(resp.body) = nCreate

\* C8: get_all_items after a completed reset, with no create since, returns
\* the empty sequence.
C8_ResetThenListEmpty ==
    (wiped /\ resp.op = "get_all_items") => resp.body = <<>>

\* The list ran after a reset that caught a create between its INSERT and
\* its refresh: the table held a row when the reset came.
C8_Witness ==
    /\ wiped /\ resp.op = "get_all_items"
    /\ Suspended("create_item") # {}

\* C9: login does not change the store and ends in one of three ways: 404
\* when no user has the email; 401 when a user has it and the password does
\* not verify; 200 with the email as bearer token when the password is the
\* one the stored hash was made from.
C9_LoginOutcomes ==
    [][(resp'.op = "login" /\ resp'.step = "select")
       => LET email == resp'.arg.email
              password == resp'.arg.password
              rows == ByEmail(users, email) IN
          /\ users' = users /\ items' = items
          /\ resp'.done /\ resp'.status \in {404, 401, 200}
          /\ rows = {} <=> resp'.status = 404
          /\ \A k \in rows :
                /\ users[k].hashed_password.digest
                     # Digest(users[k].hashed_password.salt, password)
                   => resp'.status = 401
                /\ (\E salt \in Salts : users[k].hashed_password = Hash(password, salt))
                   => /\ resp'.status = 200
                      /\ resp'.body = <<[access_token |-> users[k].email,
                                         token_type |-> "bearer"]>>]_vars

\* A login with the email of a user and another password than theirs.
C9_Witness ==
    /\ resp.op = "login" /\ resp.status = 401
    /\ ByEmail(users, resp.arg.email) # {}

\* C10: every persisted item has price > 0 and stock >= 0.
C10_ValidPersisted ==
    \A id \in DOMAIN items : items[id].price > 0 /\ items[id].stock >= 0

\* An update with a payload the schema rejects, on an id that has a row.
C10_Witness ==
    /\ resp.op = "update_item" /\ resp.status = 422
    /\ resp.arg.id \in DOMAIN items

====
